---- MODULE Spec2Model ----
(***************************************************************************)
(* The driver of the Mini JavaScript Engine (src/src/index.js): the        *)
(* MiniJSEngine class (constructor, runFile, runPrompt, run, error,        *)
(* runtimeError, report) and main.  The three stages the driver requires   *)
(* (./tokenizer, ./parser, ./interpreter) are modelled from their          *)
(* contracts: a stage returns, returns after printing a diagnostic of its  *)
(* own, or throws; the interpreter is a tree walk over lexical             *)
(* environments held in a heap and referred to by index.                   *)
(***************************************************************************)
EXTENDS Integers, Sequences, FiniteSets, TLC

(* ------------------------------ bounds --------------------------------- *)

\* The number of lines a REPL session reads before end of input.
MaxLines == 3

\* The largest process.argv.length tried (node, script, and arguments).
MaxArgc == 4

(* ------------------------------ values --------------------------------- *)

Num(n) == [t |-> "num", n |-> n]

Str(s) == [t |-> "str", s |-> s]

Bool(b) == [t |-> "bool", b |-> b]

\* The single absence value (null).
Nil == [t |-> "nil"]

\* What interpret returns when the program has no top-level expression
\* statement (JavaScript undefined).
Undefined == [t |-> "undef"]

\* A function value: parameter names, body statements, captured environment.
Fun(params, body, env) == [t |-> "fun", params |-> params, body |-> body, env |-> env]

(* ---------------------------- syntax trees ----------------------------- *)

Lit(v) == [k |-> "lit", v |-> v]

Var(name) == [k |-> "var", name |-> name]

Assign(name, e) == [k |-> "assign", name |-> name, e |-> e]

Add(l, r) == [k |-> "add", l |-> l, r |-> r]

Call(callee, args) == [k |-> "call", callee |-> callee, args |-> args]

ExprStmt(e) == [k |-> "expr", e |-> e]

VarDecl(name, init) == [k |-> "vardecl", name |-> name, e |-> init]

FunDecl(name, params, body) == [k |-> "fundecl", name |-> name, params |-> params, body |-> body]

Return(e) == [k |-> "return", e |-> e]

PrintStmt(e) == [k |-> "print", e |-> e]

(* ---------------------------- environments ----------------------------- *)

\* An environment: a mapping from names to values and the index of the
\* enclosing environment in the heap (0 for the global environment).
NoVars == [n \in {} |-> Nil]

NewEnv(parent) == [vars |-> NoVars, parent |-> parent]

\* The index of the global environment in every heap.
GlobalEnv == 1

Bind(vars, name, v) == [n \in (DOMAIN vars) \cup {name} |-> IF n = name THEN v ELSE vars[n]]

\* Declaring binds in the current environment, overwriting a previous binding.
Define(heap, env, name, v) == [heap EXCEPT ![env].vars = Bind(@, name, v)]

RECURSIVE Resolve(_, _, _)
\* The innermost environment of the chain from env that defines name, or 0.
Resolve(heap, env, name) ==
  IF env = 0 THEN 0
  ELSE IF name \in DOMAIN heap[env].vars THEN env
  ELSE Resolve(heap, heap[env].parent, name)

(* ----------------------------- evaluation ------------------------------ *)

Digits == <<"0", "1", "2", "3", "4", "5", "6", "7", "8", "9">>

RECURSIVE NatToStr(_)
NatToStr(n) == IF n < 10 THEN Digits[n + 1] ELSE NatToStr(n \div 10) \o Digits[(n % 10) + 1]

\* The string representation used by string concatenation and by the echo.
ToStr(v) ==
  CASE v.t = "num" -> IF v.n < 0 THEN "-" \o NatToStr(0 - v.n) ELSE NatToStr(v.n)
    [] v.t = "str" -> v.s
    [] v.t = "bool" -> IF v.b THEN "true" ELSE "false"
    [] v.t = "nil" -> "null"
    [] v.t = "undef" -> "undefined"
    [] v.t = "fun" -> "[Function]"

\* The result of evaluating an expression or executing statements:
\* sig is "ok", "return" (a return statement is unwinding) or "error".
Res(sig, v, heap, out) == [sig |-> sig, v |-> v, heap |-> heap, out |-> out]

RECURSIVE Eval(_, _, _, _)
RECURSIVE EvalArgs(_, _, _, _, _)
RECURSIVE ExecAll(_, _, _, _, _)

RuntimeFailure(message, heap, out) == Res("error", Str(message), heap, out)

\* The value of the name found in environment at (0: found nowhere).
EvalVar(name, at, heap, out) ==
  IF at = 0 THEN RuntimeFailure("Undefined variable '" \o name \o "'", heap, out)
  ELSE Res("ok", heap[at].vars[name], heap, out)

\* Stores the value of r in the environment at that defines the name.
EvalStore(name, at, r) ==
  IF at = 0 THEN RuntimeFailure("Undefined variable '" \o name \o "'", r.heap, r.out)
  ELSE Res("ok", r.v, Define(r.heap, at, name, r.v), r.out)

\* Assignment, r being the evaluated right-hand side.
EvalAssign(name, env, r) ==
  IF r.sig = "error" THEN r ELSE EvalStore(name, Resolve(r.heap, env, name), r)

\* l + r on evaluated operands: numeric addition, or concatenation when
\* either operand is a string.
EvalPlus(l, r) ==
  IF r.sig = "error" THEN r
  ELSE IF l.t = "num" /\ r.v.t = "num" THEN Res("ok", Num(l.n + r.v.n), r.heap, r.out)
  ELSE IF l.t = "str" \/ r.v.t = "str" THEN Res("ok", Str(ToStr(l) \o ToStr(r.v)), r.heap, r.out)
  ELSE RuntimeFailure("Operands must be numbers", r.heap, r.out)

\* The right operand of +, l being the evaluated left operand.
EvalAddRight(right, env, l) ==
  IF l.sig = "error" THEN l ELSE EvalPlus(l.v, Eval(right, env, l.heap, l.out))

\* The rest of the arguments, r being the argument just evaluated.
EvalArgsRest(rest, env, acc, r) ==
  IF r.sig = "error" THEN r ELSE EvalArgs(rest, env, r.heap, r.out, Append(acc, r.v))

\* Evaluates the arguments left to right; v is the sequence of their values.
EvalArgs(args, env, heap, out, acc) ==
  IF args = <<>> THEN Res("ok", acc, heap, out)
  ELSE EvalArgsRest(Tail(args), env, acc, Eval(Head(args), env, heap, out))

\* The environment of a call: the parameters bound positionally, the parent
\* being the environment the function captured.
CallEnv(f, argv) ==
  [vars |-> [n \in {f.params[i] : i \in 1..Len(f.params)} |->
               argv[CHOOSE i \in 1..Len(f.params) : f.params[i] = n]],
   parent |-> f.env]

\* The value of a call whose body ended as r: the returned value, or the
\* absence value when the body completed without a return.
CallReturn(r) ==
  IF r.sig = "error" THEN r
  ELSE IF r.sig = "return" THEN Res("ok", r.v, r.heap, r.out)
  ELSE Res("ok", Nil, r.heap, r.out)

\* Calls the function value f: one new environment, child of the captured
\* environment, in which the body runs.
CallFunction(f, argv, heap, out) ==
  IF f.t # "fun" THEN RuntimeFailure("Can only call functions", heap, out)
  ELSE IF Len(argv) # Len(f.params) THEN RuntimeFailure("Wrong number of arguments", heap, out)
  ELSE CallReturn(ExecAll(f.body, Len(heap) + 1, Append(heap, CallEnv(f, argv)), out, Undefined))

\* The call of f on the evaluated arguments a.
EvalApply(f, a) ==
  IF a.sig = "error" THEN a ELSE CallFunction(f, a.v, a.heap, a.out)

\* The arguments of a call, c being the evaluated callee.
EvalCallee(args, env, c) ==
  IF c.sig = "error" THEN c ELSE EvalApply(c.v, EvalArgs(args, env, c.heap, c.out, <<>>))

Eval(e, env, heap, out) ==
  CASE e.k = "lit" -> Res("ok", e.v, heap, out)
    [] e.k = "var" -> EvalVar(e.name, Resolve(heap, env, e.name), heap, out)
    [] e.k = "assign" -> EvalAssign(e.name, env, Eval(e.e, env, heap, out))
    [] e.k = "add" -> EvalAddRight(e.r, env, Eval(e.l, env, heap, out))
    [] e.k = "call" -> EvalCallee(e.args, env, Eval(e.callee, env, heap, out))

\* A variable declaration, r being the evaluated initializer.
ExecDeclare(name, env, r) ==
  IF r.sig = "error" THEN r ELSE Res("ok", Undefined, Define(r.heap, env, name, r.v), r.out)

\* A return statement, r being its evaluated expression.
ExecReturn(r) ==
  IF r.sig = "error" THEN r ELSE Res("return", r.v, r.heap, r.out)

\* A print, r being its evaluated expression.
ExecPrint(r) ==
  IF r.sig = "error" THEN r ELSE Res("ok", Undefined, r.heap, Append(r.out, ToStr(r.v)))

\* Executes one statement in env; v is the statement's value (Undefined
\* unless it is an expression statement or a return).
Exec(s, env, heap, out) ==
  CASE s.k = "expr" -> Eval(s.e, env, heap, out)
    [] s.k = "vardecl" -> ExecDeclare(s.name, env, Eval(s.e, env, heap, out))
    [] s.k = "fundecl" ->
         Res("ok", Undefined, Define(heap, env, s.name, Fun(s.params, s.body, env)), out)
    [] s.k = "return" -> ExecReturn(Eval(s.e, env, heap, out))
    [] s.k = "print" -> ExecPrint(Eval(s.e, env, heap, out))

\* The statements after the first, r being the result of the first.  An
\* error or a return stops the sequence.
ExecRest(stmts, env, last, r) ==
  IF r.sig # "ok" THEN r
  ELSE ExecAll(Tail(stmts), env, r.heap, r.out, IF Head(stmts).k = "expr" THEN r.v ELSE last)

\* Executes the statements in order; last is the value of the most recent
\* expression statement.
ExecAll(stmts, env, heap, out, last) ==
  IF stmts = <<>> THEN Res("ok", last, heap, out)
  ELSE ExecRest(stmts, env, last, Exec(Head(stmts), env, heap, out))

(* ------------------------------ programs ------------------------------- *)

\* function makeCounter(){ var n = 0; function inc(){ n = n + 1; return n; } return inc; }
MakeCounterDecl ==
  FunDecl("makeCounter", <<>>,
          << VarDecl("n", Lit(Num(0))),
             FunDecl("inc", <<>>,
                     << ExprStmt(Assign("n", Add(Var("n"), Lit(Num(1))))),
                        Return(Var("n")) >>),
             Return(Var("inc")) >>)

\* ... var c = makeCounter();
ProgMakeCounter == << MakeCounterDecl, VarDecl("c", Call(Var("makeCounter"), <<>>)) >>

\* c();
ProgCall == << ExprStmt(Call(Var("c"), <<>>)) >>

\* The whole closure program of the testable properties, ending in c(); c();
ProgCounterTwice == ProgMakeCounter \o ProgCall \o ProgCall

\* var x = 1; x = x + 1; x
ProgIncrement ==
  << VarDecl("x", Lit(Num(1))),
     ExprStmt(Assign("x", Add(Var("x"), Lit(Num(1))))),
     ExprStmt(Var("x")) >>

\* var z = 5; print z; y;      (y is never declared)
ProgUndefined == << VarDecl("z", Lit(Num(5))), PrintStmt(Var("z")), ExprStmt(Var("y")) >>

\* z
ProgReadZ == << ExprStmt(Var("z")) >>

\* 0
ProgZero == << ExprStmt(Lit(Num(0))) >>

\* false
ProgFalse == << ExprStmt(Lit(Bool(FALSE))) >>

\* ""
ProgEmptyString == << ExprStmt(Lit(Str(""))) >>

\* exit        (the identifier, when it reaches the pipeline)
ProgExit == << ExprStmt(Var("exit")) >>

\* A source text is the sequence of its lexemes and whitespace runs.
Programs ==
  { [text |-> <<"makeCounter", " ", "c">>, prog |-> ProgMakeCounter],
    [text |-> <<"c()", ";">>, prog |-> ProgCall],
    [text |-> <<"makeCounter", " ", "c()", ";", "c()", ";">>, prog |-> ProgCounterTwice],
    [text |-> <<"var", " ", "x", ";", "x">>, prog |-> ProgIncrement],
    [text |-> <<"var", " ", "z", ";", "y", ";">>, prog |-> ProgUndefined],
    [text |-> <<"z">>, prog |-> ProgReadZ],
    [text |-> <<"0">>, prog |-> ProgZero],
    [text |-> <<"false">>, prog |-> ProgFalse],
    [text |-> <<"''">>, prog |-> ProgEmptyString],
    [text |-> <<"exit">>, prog |-> ProgExit],
    [text |-> <<" ", "quit", "\t">>, prog |-> ProgExit],
    [text |-> <<"\f", "exit", "\r">>, prog |-> ProgExit],
    [text |-> <<"exit", ";">>, prog |-> ProgExit] }

\* What a stage does with its input: it returns, it prints a diagnostic of
\* its own and returns, or it throws.
Outcomes == {"ok", "report", "throw"}

\* How the interpreter surfaces a runtime error to its caller.
RtStyles == {"report", "throw"}

\* What a stage throws when it throws: an Error object, which has a
\* message, or a value that has no message property (a string, a plain
\* object).  The errors of the stages all carry a message, and the language
\* has no throw statement, so no stage throws null or undefined.
ThrownKinds == {"error", "value"}

\* The values that have no properties at all, on which reading .message
\* raises a TypeError.
Nullish == {"null", "undefined"}

Sources ==
  { [text |-> p.text, prog |-> p.prog, lex |-> l, syn |-> s, rt |-> r, thrown |-> t] :
      p \in Programs, l \in Outcomes, s \in Outcomes, r \in RtStyles, t \in ThrownKinds }

\* What fs.readFileSync yields: the file's source, or a failure.
Files == { [readable |-> TRUE, source |-> s] : s \in Sources }
           \cup { [readable |-> FALSE, source |-> s] : s \in { t \in Sources : t.text = <<"0">> /\ t.lex = "ok" /\ t.syn = "ok" /\ t.rt = "throw" /\ t.thrown = "error" } }

(* ------------------------------- stages -------------------------------- *)

\* tokenizer.tokenize(): the tokens, after a diagnostic of its own if the
\* source has a lexical error it recovers from, or an exception.
Tokenize(source) ==
  [ threw |-> source.lex = "throw",
    thrown |-> source.thrown,
    failed |-> source.lex # "ok",
    message |-> "Unexpected character",
    out |-> IF source.lex = "report" THEN << "[line 1] Error: Unexpected character" >> ELSE <<>>,
    tokens |-> source.prog ]

\* parser.parse(): the statements, after a diagnostic of its own if the
\* tokens have a syntax error it recovers from, or an exception.
Parse(source, tokens) ==
  [ threw |-> source.syn = "throw",
    thrown |-> source.thrown,
    failed |-> source.syn # "ok",
    message |-> "Expect ';' after expression",
    out |-> IF source.syn = "report" THEN << "[line 1] Error: Expect ';' after expression" >> ELSE <<>>,
    statements |-> tokens ]

\* new Interpreter(): a global environment and nothing else.
NewInterpreter(id) == [id |-> id, heap |-> << NewEnv(0) >>]

\* What interpret hands to its caller when the statements ended as r.
InterpretResult(interpreter, style, thrown, r) ==
  [ interpreter |-> [interpreter EXCEPT !.heap = r.heap],
    failed |-> r.sig = "error",
    threw |-> r.sig = "error" /\ style = "throw",
    thrown |-> thrown,
    message |-> IF r.sig = "error" THEN r.v.s ELSE "",
    out |-> IF r.sig = "error" /\ style = "report"
            THEN Append(r.out, "Runtime Error: " \o r.v.s) ELSE r.out,
    value |-> IF r.sig = "error" THEN Undefined ELSE r.v ]

\* interpreter.interpret(statements): runs the statements in the global
\* environment of this interpreter.  A runtime error aborts the program; the
\* effects of the statements before it stay.  The error reaches the caller as
\* an exception (style "throw"), which is a value of the kind thrown, or as a
\* printed diagnostic (style "report").
Interpret(interpreter, statements, style, thrown) ==
  InterpretResult(interpreter, style, thrown,
                  ExecAll(statements, GlobalEnv, interpreter.heap, <<>>, Undefined))

(* ------------------------------ the engine ----------------------------- *)

\* Exit codes of the driver.
ExitOk == 0

ExitReadError == 1

\* The status of a process that ends by an uncaught exception.
ExitUncaught == 1

ExitUsage == 64

ExitSyntaxError == 65

ExitRuntimeError == 70

\* process.argv.length of an invocation with exactly one script argument.
FileArgc == 3

\* The largest process.argv.length for which run echoes the result.
ReplArgc == 2

\* A constructor that hands every engine the same Interpreter object.
ConstructorShared(id) ==
  [interpreter |-> NewInterpreter(1), hadError |-> FALSE, hadRuntimeError |-> FALSE]

\* new MiniJSEngine(): one Interpreter and both flags clear.
Constructor(id) ==
  [interpreter |-> NewInterpreter(id), hadError |-> FALSE, hadRuntimeError |-> FALSE]

\* report(line, where, message): prints the diagnostic and sets hadError.
Report(engine, line, where, message) ==
  [engine |-> [engine EXCEPT !.hadError = TRUE],
   out |-> << "[line " \o NatToStr(line) \o "] Error " \o where \o ": " \o message >>]

\* error(line, message)
Error(engine, line, message) == Report(engine, line, "", message)

\* runtimeError(error): prints the diagnostic and sets hadRuntimeError.
RuntimeError(engine, message) ==
  [engine |-> [engine EXCEPT !.hadRuntimeError = TRUE],
   out |-> << "Runtime Error: " \o message >>]

\* The truthiness of a JavaScript value, as `result && ...` tests it.
Truthy(v) ==
  CASE v.t = "num" -> v.n # 0
    [] v.t = "str" -> v.s # ""
    [] v.t = "bool" -> v.b
    [] v.t = "nil" -> FALSE
    [] v.t = "undef" -> FALSE
    [] v.t = "fun" -> TRUE

\* The record of no call of run.
NoRun ==
  [ran |-> FALSE, engine |-> Constructor(1), entry |-> Constructor(1),
   text |-> <<>>, completion |-> "return", threwAt |-> "", thrown |-> "",
   message |-> "",
   calls |-> <<>>, news |-> <<>>, out |-> <<>>,
   lexFailed |-> FALSE, synFailed |-> FALSE, rtFailed |-> FALSE,
   interpretedBy |-> 0, startHeap |-> <<>>, left |-> NewInterpreter(1),
   value |-> Undefined, echoed |-> FALSE]

\* A run that begins by clearing both flags.
RunEntryClears(engine, source) ==
  [NoRun EXCEPT !.ran = TRUE, !.entry = engine, !.text = source.text,
                !.engine = [engine EXCEPT !.hadError = FALSE, !.hadRuntimeError = FALSE],
                !.left = engine.interpreter]

\* The state of a call run(source) at its entry.
RunEntry(engine, source) ==
  [NoRun EXCEPT !.ran = TRUE, !.engine = engine, !.entry = engine, !.text = source.text,
                !.left = engine.interpreter]

\* A driver that makes a new Interpreter for every run.
RunInterpreterFresh(engine) == NewInterpreter(engine.interpreter.id + 1)

\* The interpreter run hands the statements to: this.interpreter.
RunInterpreter(engine) == engine.interpreter

\* A driver that goes on to the parser after the tokenizer threw.
RunTokenizeSwallow(r, tk) ==
  [r EXCEPT !.news = Append(@, "Tokenizer"), !.calls = Append(@, "tokenize"),
            !.out = @ \o tk.out, !.lexFailed = tk.failed,
            !.threwAt = IF tk.threw THEN "tokenize" ELSE @]

\* const tokenizer = new Tokenizer(source); const tokens = tokenizer.tokenize();
RunTokenize(r, tk) ==
  [r EXCEPT !.news = Append(@, "Tokenizer"), !.calls = Append(@, "tokenize"),
            !.out = @ \o tk.out, !.lexFailed = tk.failed,
            !.completion = IF tk.threw THEN "throw" ELSE "return",
            !.threwAt = IF tk.threw THEN "tokenize" ELSE @,
            !.thrown = IF tk.threw THEN tk.thrown ELSE "",
            !.message = IF tk.threw THEN tk.message ELSE ""]

\* const parser = new Parser(tokens); const statements = parser.parse();
RunParse(r, ps) ==
  [r EXCEPT !.news = Append(@, "Parser"), !.calls = Append(@, "parse"),
            !.out = @ \o ps.out, !.synFailed = ps.failed,
            !.completion = IF ps.threw THEN "throw" ELSE "return",
            !.threwAt = IF ps.threw THEN "parse" ELSE @,
            !.thrown = IF ps.threw THEN ps.thrown ELSE "",
            !.message = IF ps.threw THEN ps.message ELSE ""]

\* const result = this.interpreter.interpret(statements);   The interpreter
\* object is changed in place, so the engine holds what interpret left.
RunInterpret(r, interpreter, it) ==
  [r EXCEPT !.calls = Append(@, "interpret"), !.interpretedBy = interpreter.id,
            !.startHeap = interpreter.heap, !.left = it.interpreter,
            !.engine.interpreter = it.interpreter,
            !.out = @ \o it.out, !.rtFailed = it.failed,
            !.completion = IF it.threw THEN "throw" ELSE "return",
            !.threwAt = IF it.threw THEN "interpret" ELSE @,
            !.thrown = IF it.threw THEN it.thrown ELSE "",
            !.message = IF it.threw THEN it.message ELSE "",
            !.value = it.value]

\* An echo that does not look at the mode.
RunEchoAlways(r, argc) ==
  IF Truthy(r.value)
  THEN [r EXCEPT !.out = Append(@, ToStr(r.value)), !.echoed = TRUE]
  ELSE r

\* if (result && process.argv.length <= 2) console.log(result);
RunEcho(r, argc) ==
  IF Truthy(r.value) /\ argc <= ReplArgc
  THEN [r EXCEPT !.out = Append(@, ToStr(r.value)), !.echoed = TRUE]
  ELSE r

\* if (this.hadError) return;   guards the interpretation.
RunSkipsInterpret(engine) == engine.hadError

\* The try block after the interpretation, which left the run as r.
TryEcho(r, argc) ==
  IF r.completion = "throw" THEN r ELSE RunEcho(r, argc)

\* The try block after the parse, which left the run as r.
TryInterpret(r, source, argc) ==
  IF r.completion = "throw" THEN r
  ELSE IF RunSkipsInterpret(r.engine) THEN r
  ELSE TryEcho(RunInterpret(r, RunInterpreter(r.engine),
                            Interpret(RunInterpreter(r.engine),
                                      Parse(source, Tokenize(source).tokens).statements,
                                      source.rt, source.thrown)),
               argc)

\* The try block after the tokenization, which left the run as r.
TryParse(r, source, argc) ==
  IF r.completion = "throw" THEN r
  ELSE TryInterpret(RunParse(r, Parse(source, Tokenize(source).tokens)), source, argc)

\* The try block of run.
RunTry(engine, source, argc) ==
  TryParse(RunTokenize(RunEntry(engine, source), Tokenize(source)), source, argc)

\* `${error.message}` for a thrown value that is not null or undefined: the
\* message of an Error object, and "undefined" for a value without one.
MessageOf(thrown, message) == IF thrown = "error" THEN message ELSE "undefined"

\* The message of the TypeError that reading error.message raises when the
\* thrown value is null or undefined.
NoMessageOf(thrown) == "Cannot read properties of " \o thrown \o " (reading 'message')"

\* The catch block when the caught value is null or undefined: the template
\* is evaluated before console.error is called and raises a TypeError, so
\* nothing is printed, hadError is not set and the TypeError leaves run.  No
\* stage throws such a value.
RunCatchFails(r) ==
  [r EXCEPT !.completion = "throw", !.thrown = "error", !.message = NoMessageOf(r.thrown)]

\* A run without its catch block: the exception leaves run.
RunCatchRethrow(r) == r

\* A catch block that also puts the interpreter back as it was at entry.
RunCatchRollback(r) ==
  IF r.thrown \in Nullish THEN RunCatchFails(r)
  ELSE [r EXCEPT !.completion = "return", !.thrown = "",
                 !.message = MessageOf(r.thrown, r.message),
                 !.out = Append(@, "Error: " \o MessageOf(r.thrown, r.message)),
                 !.engine.hadError = TRUE, !.engine.interpreter = r.entry.interpreter]

\* The catch block of run: console.error(`Error: ${error.message}`) and
\* this.hadError = true.
RunCatch(r) ==
  IF r.thrown \in Nullish THEN RunCatchFails(r)
  ELSE [r EXCEPT !.completion = "return", !.thrown = "",
                 !.message = MessageOf(r.thrown, r.message),
                 !.out = Append(@, "Error: " \o MessageOf(r.thrown, r.message)),
                 !.engine.hadError = TRUE]

\* The end of run, the try block having left the run as r.
RunEnd(r) == IF r.completion = "throw" THEN RunCatch(r) ELSE r

\* run(source)
Run(engine, source, argc) == RunEnd(RunTry(engine, source, argc))

\* A runFile that tests hadRuntimeError before hadError.
RunFileExitRuntimeFirst(r) ==
  IF r.completion = "throw"
  THEN [engine |-> r.engine, run |-> r,
        out |-> Append(r.out, "Error reading file: " \o r.message),
        exit |-> << ExitReadError >>, prompt |-> FALSE]
  ELSE [engine |-> r.engine, run |-> r, out |-> r.out,
        exit |-> IF r.engine.hadRuntimeError THEN << ExitRuntimeError >>
                 ELSE IF r.engine.hadError THEN << ExitSyntaxError >>
                 ELSE <<>>,
        prompt |-> FALSE]

\* runFile after this.run(source), which ended as r.  An exception that leaves
\* run is caught by the catch meant for the read: "Error reading file" and
\* exit 1.
RunFileExit(r) ==
  IF r.completion = "throw"
  THEN [engine |-> r.engine, run |-> r,
        out |-> Append(r.out, "Error reading file: " \o r.message),
        exit |-> << ExitReadError >>, prompt |-> FALSE]
  ELSE [engine |-> r.engine, run |-> r, out |-> r.out,
        exit |-> IF r.engine.hadError THEN << ExitSyntaxError >>
                 ELSE IF r.engine.hadRuntimeError THEN << ExitRuntimeError >>
                 ELSE <<>>,
        prompt |-> FALSE]

\* runFile(path): exit is the argument of process.exit, <<>> if it is not called.
RunFile(engine, file, argc) ==
  IF ~file.readable
  THEN [engine |-> engine, run |-> NoRun,
        out |-> << "Error reading file: ENOENT" >>, exit |-> << ExitReadError >>,
        prompt |-> FALSE]
  ELSE RunFileExit(Run(engine, file.source, argc))

\* The characters line.trim() strips: the WhiteSpace and LineTerminator code
\* points of ECMAScript.  A text holds one whitespace character per element;
\* a character that has no escape in a TLA+ string is written as its
\* JavaScript escape.
Whitespace ==
  { " ", "\t", "\n", "\f", "\r", "\\v", "\\u00a0", "\\u1680",
    "\\u2000", "\\u2001", "\\u2002", "\\u2003", "\\u2004", "\\u2005",
    "\\u2006", "\\u2007", "\\u2008", "\\u2009", "\\u200a",
    "\\u2028", "\\u2029", "\\u202f", "\\u205f", "\\u3000", "\\ufeff" }

RECURSIVE TrimStart(_)
TrimStart(text) ==
  IF text # <<>> /\ Head(text) \in Whitespace THEN TrimStart(Tail(text)) ELSE text

RECURSIVE TrimEnd(_)
TrimEnd(text) ==
  IF text # <<>> /\ text[Len(text)] \in Whitespace
  THEN TrimEnd(SubSeq(text, 1, Len(text) - 1)) ELSE text

\* line.trim()
Trim(text) == TrimEnd(TrimStart(text))

\* The test for exit and quit on the line as typed.
IsExitLineNoTrim(text) == text = << "exit" >> \/ text = << "quit" >>

\* line.trim() === 'exit' || line.trim() === 'quit'
IsExitLine(text) == Trim(text) = << "exit" >> \/ Trim(text) = << "quit" >>

\* The 'close' handler of the REPL: prints Goodbye! and exits with 0.
CloseHandler(engine) ==
  [engine |-> engine, run |-> NoRun, out |-> << "Goodbye!" >>,
   exit |-> << ExitOk >>, prompt |-> FALSE]

\* A line handler that forgets the reset.
ResetFlagsNone(engine) == engine

\* The reset of both flags after the run of a REPL line.
ResetFlags(engine) == [engine EXCEPT !.hadError = FALSE, !.hadRuntimeError = FALSE]

\* The line handler after this.run(line), which ended as r: the reset and
\* the next prompt.  An exception that leaves run leaves the handler too:
\* nothing catches it, and the process ends with the status of an uncaught
\* exception, without reset, prompt or Goodbye!.
LineAfterRun(r) ==
  IF r.completion = "throw"
  THEN [engine |-> r.engine, run |-> r, out |-> Append(r.out, "TypeError: " \o r.message),
        exit |-> << ExitUncaught >>, prompt |-> FALSE]
  ELSE [engine |-> ResetFlags(r.engine), run |-> r, out |-> r.out,
        exit |-> <<>>, prompt |-> TRUE]

\* The 'line' handler of the REPL.  rl.close() emits 'close' synchronously.
LineHandler(engine, line, argc) ==
  IF IsExitLine(line.text) THEN CloseHandler(engine)
  ELSE LineAfterRun(Run(engine, line, argc))

\* The number of objects of a class that a run created.
RECURSIVE Count(_, _)
Count(news, class) ==
  IF news = <<>> THEN 0
  ELSE (IF Head(news) = class THEN 1 ELSE 0) + Count(Tail(news), class)

(* ------------------------------ the process ---------------------------- *)

VARIABLES
  argc,      \* process.argv.length
  pc,        \* "main", "repl" (waiting for a line), "returned", "exited"
  engine,    \* the MiniJSEngine of main
  exit,      \* << code >> once process.exit(code) is called, else << >>
  lines,     \* the number of REPL lines handled
  prompts,   \* the number of prompts issued
  last,      \* the record of the most recent call of run
  created,   \* the number of Tokenizer, Parser and Interpreter objects created
  console,   \* what the most recent step printed
  pending,   \* the lines that arrived at the REPL and are not yet dispatched
  active,    \* the activations of the line handler that have not returned
  engines,   \* the engines of a caller that constructs its own
  objects,   \* the Interpreter objects of those engines, by identity
  sessions,  \* the number of readline interfaces each engine's runPrompt made
  op         \* the most recent method call of that caller

\* The process that main drives.
procVars == << argc, pc, engine, exit, lines, prompts, last, created, console >>

\* The event loop between the arrival of a line and its handler.
loopVars == << pending, active >>

\* The engines used as objects.
apiVars == << engines, objects, sessions, op >>

vars == << procVars, loopVars, apiVars >>

\* The engines a caller constructs for itself.
EngineIds == {1, 2}

\* The mode main selects from process.argv.length, without the check for
\* too many arguments.
MainModeNoUsage(n) == IF n >= FileArgc THEN "file" ELSE "repl"

\* The mode main selects from process.argv.length.
MainMode(n) ==
  IF n > FileArgc THEN "usage" ELSE IF n = FileArgc THEN "file" ELSE "repl"

\* main has constructed its engine and is about to look at the arguments.
Init ==
  /\ argc \in 2..MaxArgc
  /\ pc = "main"
  /\ engine = Constructor(1)
  /\ exit = <<>>
  /\ lines = 0
  /\ prompts = 0
  /\ last = NoRun
  /\ created = [Tokenizer |-> 0, Parser |-> 0, Interpreter |-> 1]
  /\ console = <<>>
  /\ pending = <<>>
  /\ active = <<>>
  /\ engines = [i \in EngineIds |-> Constructor(i)]
  /\ objects = [id \in { Constructor(i).interpreter.id : i \in EngineIds } |-> NewInterpreter(id)]
  /\ sessions = [i \in EngineIds |-> 0]
  /\ op = [name |-> "none", on |-> 0, n |-> 0]

\* The objects created by a step whose run is r and which leaves engine e.
Created(r, e) ==
  [Tokenizer |-> created.Tokenizer + Count(r.news, "Tokenizer"),
   Parser |-> created.Parser + Count(r.news, "Parser"),
   Interpreter |-> IF e.interpreter.id > created.Interpreter
                   THEN e.interpreter.id ELSE created.Interpreter]

\* main with more than one script argument: the usage line and exit 64.
MainUsage ==
  /\ pc = "main" /\ MainMode(argc) = "usage"
  /\ console' = << "Usage: node src/index.js [script]" >>
  /\ exit' = << ExitUsage >>
  /\ pc' = "exited"
  /\ UNCHANGED << argc, engine, lines, prompts, last, created, loopVars, apiVars >>

\* main with exactly one script argument: engine.runFile(process.argv[2]).
MainFile ==
  /\ pc = "main" /\ MainMode(argc) = "file"
  /\ \E file \in Files :
       \E f \in { RunFile(engine, file, argc) } :
          /\ engine' = f.engine
          /\ last' = f.run
          /\ console' = f.out
          /\ exit' = f.exit
          /\ created' = Created(f.run, f.engine)
          /\ pc' = IF f.exit = <<>> THEN "returned" ELSE "exited"
  /\ UNCHANGED << argc, lines, prompts, loopVars, apiVars >>

\* main without a script argument: the banner, then runPrompt issues the
\* first prompt and installs the handlers.
MainRepl ==
  /\ pc = "main" /\ MainMode(argc) = "repl"
  /\ console' = << "Mini JavaScript Engine - REPL Mode", "Type \"exit\" or \"quit\" to exit" >>
  /\ prompts' = prompts + 1
  /\ pc' = "repl"
  /\ UNCHANGED << argc, engine, exit, lines, last, created, loopVars, apiVars >>

\* A line arrives at the REPL.
Line ==
  /\ pc = "repl" /\ lines < MaxLines
  /\ \E line \in Sources :
       \E h \in { LineHandler(engine, line, argc) } :
          /\ engine' = h.engine
          /\ last' = h.run
          /\ console' = h.out
          /\ exit' = h.exit
          /\ created' = Created(h.run, h.engine)
          /\ prompts' = IF h.prompt THEN prompts + 1 ELSE prompts
          /\ pc' = IF h.exit = <<>> THEN "repl" ELSE "exited"
  /\ lines' = lines + 1
  /\ UNCHANGED << argc, loopVars, apiVars >>

\* The input of the REPL ends.
Close ==
  /\ pc = "repl"
  /\ \E h \in { CloseHandler(engine) } :
       /\ console' = h.out
       /\ exit' = h.exit
       /\ last' = h.run
  /\ pc' = "exited"
  /\ UNCHANGED << argc, engine, lines, prompts, created, loopVars, apiVars >>

Next == MainUsage \/ MainFile \/ MainRepl \/ Line \/ Close

Spec == Init /\ [][Next]_vars

(* ----------------------------- the event loop -------------------------- *)

\* The REPL with the line handler taken one statement at a time and the
\* lines queued by readline between their arrival and their handler.

\* The lines typed in these sessions.
LoopSources ==
  { s \in Sources :
      /\ s.text \in { << "var", " ", "z", ";", "y", ";" >>, << "z" >>, << "0" >>, << "exit" >> }
      /\ s.lex \in {"ok", "throw"} /\ s.syn = "ok" /\ s.rt = "throw"
      /\ s.thrown \in {"error", "value"} }

\* An event loop that calls the handler for a line while an earlier call of
\* it has not returned.
DispatchAnytime(acts) == TRUE

\* The handler is a synchronous function: readline calls it for the next
\* line only when no call of it is in progress.
DispatchReady(acts) == acts = <<>>

InitLoop == Init /\ MainMode(argc) = "repl"

\* A line arrives; its number is its position in the input.
Arrive ==
  /\ pc = "repl" /\ lines + Len(active) + Len(pending) < MaxLines
  /\ \E line \in LoopSources :
       pending' = Append(pending, [n |-> lines + Len(active) + Len(pending) + 1, line |-> line])
  /\ UNCHANGED << procVars, active, apiVars >>

\* readline calls the handler for the oldest pending line; the handler tests
\* it for exit and quit, and closes the session if it is one.
Dispatch ==
  /\ pc = "repl" /\ pending # <<>> /\ DispatchReady(active)
  /\ pending' = Tail(pending)
  /\ IF IsExitLine(Head(pending).line.text)
     THEN /\ \E h \in { CloseHandler(engine) } :
               /\ console' = h.out
               /\ exit' = h.exit
               /\ last' = h.run
          /\ pc' = "exited"
          /\ lines' = lines + 1
          /\ UNCHANGED << argc, engine, prompts, created, active, apiVars >>
     ELSE /\ active' = Append(active, [n |-> Head(pending).n, line |-> Head(pending).line,
                                       at |-> "run"])
          /\ UNCHANGED << procVars, apiVars >>

\* this.run(line);   An exception that leaves run ends the handler and the
\* process.
StepRun ==
  /\ pc = "repl"
  /\ \E i \in 1..Len(active) :
       /\ active[i].at = "run"
       /\ \E r \in { Run(engine, active[i].line, argc) } :
            /\ engine' = r.engine
            /\ last' = r
            /\ created' = Created(r, r.engine)
            /\ IF r.completion = "throw"
               THEN /\ console' = LineAfterRun(r).out
                    /\ exit' = LineAfterRun(r).exit
                    /\ pc' = "exited"
                    /\ lines' = lines + 1
                    /\ active' = [j \in 1..(Len(active) - 1) |->
                                    IF j < i THEN active[j] ELSE active[j + 1]]
               ELSE /\ console' = r.out
                    /\ active' = [active EXCEPT ![i].at = "reset"]
                    /\ UNCHANGED << pc, exit, lines >>
  /\ UNCHANGED << argc, prompts, pending, apiVars >>

\* this.hadError = false; this.hadRuntimeError = false;
StepReset ==
  /\ pc = "repl"
  /\ \E i \in 1..Len(active) :
       /\ active[i].at = "reset"
       /\ active' = [active EXCEPT ![i].at = "prompt"]
  /\ engine' = ResetFlags(engine)
  /\ UNCHANGED << argc, pc, exit, lines, prompts, last, created, console, pending, apiVars >>

\* rl.prompt(); and the handler returns.
StepPrompt ==
  /\ pc = "repl"
  /\ \E i \in 1..Len(active) :
       /\ active[i].at = "prompt"
       /\ active' = [j \in 1..(Len(active) - 1) |-> IF j < i THEN active[j] ELSE active[j + 1]]
  /\ prompts' = prompts + 1
  /\ lines' = lines + 1
  /\ UNCHANGED << argc, pc, engine, exit, last, created, console, pending, apiVars >>

\* The input ends after the last line was handled.
LoopClose == pending = <<>> /\ active = <<>> /\ Close

NextLoop == MainRepl \/ Arrive \/ Dispatch \/ StepRun \/ StepReset \/ StepPrompt \/ LoopClose

SpecLoop == InitLoop /\ [][NextLoop]_vars

(* --------------------------- engines as objects ------------------------ *)

\* A caller that constructs engines and calls their methods in any order.
\* An engine refers to its Interpreter object by identity; the state of the
\* object is in objects.

\* The number of method calls such a caller makes.
MaxCalls == 3

\* The sources such a caller hands to run, runFile and the line handler.
ApiSources ==
  { s \in Sources :
      /\ s.text \in { << "var", " ", "x", ";", "x" >>, << "var", " ", "z", ";", "y", ";" >>,
                      << "z" >>, << "exit" >> }
      /\ s.lex \in {"ok", "throw"} /\ s.syn = "ok" /\ s.rt = "throw"
      /\ s.thrown \in {"error", "value"} }

ApiFiles == { f \in Files : f.source \in ApiSources \/ ~f.readable }

\* The engine e with the present state of its Interpreter object.
Load(e) == [e EXCEPT !.interpreter = objects[e.interpreter.id]]

\* The fields of the engine after, with its reference to the Interpreter.
Unload(after, e) == [after EXCEPT !.interpreter = e.interpreter]

\* A method call on engine i that leaves the engine as after.
ApiCall(name, i, after) ==
  /\ engines' = [engines EXCEPT ![i] = Unload(after, engines[i])]
  /\ objects' = [objects EXCEPT ![engines[i].interpreter.id] = after.interpreter]
  /\ op' = [name |-> name, on |-> i, n |-> op.n + 1]

\* The process after a handler that returned h.
ApiHandled(h) ==
  /\ last' = h.run
  /\ console' = h.out
  /\ exit' = h.exit
  /\ created' = Created(h.run, h.engine)
  /\ pc' = IF h.exit = <<>> THEN pc ELSE "exited"

\* engine.run(source)
ApiRun ==
  /\ pc # "exited" /\ op.n < MaxCalls
  /\ \E i \in EngineIds, source \in ApiSources :
       \E r \in { Run(Load(engines[i]), source, argc) } :
          /\ ApiCall("run", i, r.engine)
          /\ last' = r
          /\ console' = r.out
          /\ created' = Created(r, r.engine)
  /\ UNCHANGED << argc, pc, engine, exit, lines, prompts, sessions, loopVars >>

\* engine.report(line, where, message)
ApiReport ==
  /\ pc # "exited" /\ op.n < MaxCalls
  /\ \E i \in EngineIds :
       \E h \in { Report(Load(engines[i]), 1, "at end", "Expect expression") } :
          /\ ApiCall("report", i, h.engine)
          /\ console' = h.out
  /\ UNCHANGED << argc, pc, engine, exit, lines, prompts, last, created, sessions, loopVars >>

\* engine.error(line, message)
ApiError ==
  /\ pc # "exited" /\ op.n < MaxCalls
  /\ \E i \in EngineIds :
       \E h \in { Error(Load(engines[i]), 1, "Unexpected character") } :
          /\ ApiCall("error", i, h.engine)
          /\ console' = h.out
  /\ UNCHANGED << argc, pc, engine, exit, lines, prompts, last, created, sessions, loopVars >>

\* engine.runtimeError(error)
ApiRuntimeError ==
  /\ pc # "exited" /\ op.n < MaxCalls
  /\ \E i \in EngineIds :
       \E h \in { RuntimeError(Load(engines[i]), "Undefined variable 'y'") } :
          /\ ApiCall("runtimeError", i, h.engine)
          /\ console' = h.out
  /\ UNCHANGED << argc, pc, engine, exit, lines, prompts, last, created, sessions, loopVars >>

\* engine.runFile(path)
ApiRunFile ==
  /\ pc # "exited" /\ op.n < MaxCalls
  /\ \E i \in EngineIds, file \in ApiFiles :
       \E f \in { RunFile(Load(engines[i]), file, argc) } :
          /\ ApiCall("runFile", i, f.engine)
          /\ ApiHandled(f)
  /\ UNCHANGED << argc, engine, lines, prompts, sessions, loopVars >>

\* engine.runPrompt(): makes a readline interface, issues the first prompt
\* and installs the line and close handlers.
ApiRunPrompt ==
  /\ pc # "exited" /\ op.n < MaxCalls
  /\ \E i \in EngineIds :
       /\ ApiCall("runPrompt", i, Load(engines[i]))
       /\ sessions' = [sessions EXCEPT ![i] = @ + 1]
  /\ prompts' = prompts + 1
  /\ console' = <<>>
  /\ UNCHANGED << argc, pc, engine, exit, lines, last, created, loopVars >>

\* A line handler that engine.runPrompt() installed is called with a line.
ApiLine ==
  /\ pc # "exited" /\ op.n < MaxCalls
  /\ \E i \in EngineIds, line \in ApiSources :
       /\ sessions[i] > 0
       /\ \E h \in { LineHandler(Load(engines[i]), line, argc) } :
            /\ ApiCall("line", i, h.engine)
            /\ ApiHandled(h)
            /\ prompts' = IF h.prompt THEN prompts + 1 ELSE prompts
  /\ lines' = lines + 1
  /\ UNCHANGED << argc, engine, sessions, loopVars >>

\* A close handler that engine.runPrompt() installed is called: the input of
\* that interface ended.
ApiClose ==
  /\ pc # "exited" /\ op.n < MaxCalls
  /\ \E i \in EngineIds :
       /\ sessions[i] > 0
       /\ \E h \in { CloseHandler(Load(engines[i])) } :
            /\ ApiCall("close", i, h.engine)
            /\ ApiHandled(h)
  /\ UNCHANGED << argc, engine, lines, prompts, sessions, loopVars >>

NextApi ==
  \/ ApiRun \/ ApiReport \/ ApiError \/ ApiRuntimeError \/ ApiRunFile
  \/ ApiRunPrompt \/ ApiLine \/ ApiClose

\* The caller has constructed its engines, each of which constructed its
\* Interpreter, and has called no method yet.  created counts the objects of
\* this caller; main and its engine take no part, and engine stays as it is.
InitApi ==
  /\ argc \in 2..MaxArgc
  /\ pc = "main"
  /\ engine = Constructor(1)
  /\ exit = <<>>
  /\ lines = 0
  /\ prompts = 0
  /\ last = NoRun
  /\ created = [Tokenizer |-> 0, Parser |-> 0, Interpreter |-> Cardinality(EngineIds)]
  /\ console = <<>>
  /\ pending = <<>>
  /\ active = <<>>
  /\ engines = [i \in EngineIds |-> Constructor(i)]
  /\ objects = [id \in { Constructor(i).interpreter.id : i \in EngineIds } |-> NewInterpreter(id)]
  /\ sessions = [i \in EngineIds |-> 0]
  /\ op = [name |-> "none", on |-> 0, n |-> 0]

SpecApi == InitApi /\ [][NextApi]_vars

TypeOK ==
  /\ argc \in 2..MaxArgc
  /\ pc \in {"main", "repl", "returned", "exited"}
  /\ engine.hadError \in BOOLEAN /\ engine.hadRuntimeError \in BOOLEAN
  /\ Len(exit) <= 1
  /\ lines \in Nat /\ prompts \in Nat

(* ------------------------------ properties ----------------------------- *)

\* The run r called the stage.
Called(r, stage) == \E i \in 1..Len(r.calls) : r.calls[i] = stage

\* The run r met a lexical, syntax or runtime error.
Failed(r) == r.lexFailed \/ r.synFailed \/ r.rtFailed

TextCall == << "c()", ";" >>

TextCounterTwice == << "makeCounter", " ", "c()", ";", "c()", ";" >>

TextReadZ == << "z" >>

\* The global environment binds c to a function value.
CounterBound(e) ==
  /\ "c" \in DOMAIN e.interpreter.heap[GlobalEnv].vars
  /\ e.interpreter.heap[GlobalEnv].vars["c"].t = "fun"

\* The number of calls made so far of the function bound to c: each call
\* made one environment whose parent is the environment c captured.
CounterCalls(e) ==
  LET heap == e.interpreter.heap
  IN Cardinality({ i \in 1..Len(heap) : heap[i].parent = heap[GlobalEnv].vars["c"].env })

\* C1: a run whose parser reported a syntax error, by throwing or by a
\* diagnostic, never calls interpreter.interpret.
C1_SyntaxErrorPreventsInterpret ==
  (last.ran /\ last.synFailed) => ~Called(last, "interpret")

\* C2: at the end of run a failed interpretation has set hadRuntimeError and
\* not hadError, a failed parse has set hadError, and file mode exits with 70
\* for the first and 65 for the second.
C2_ErrorKindsDistinguished ==
  last.ran =>
    /\ (last.rtFailed /\ ~last.lexFailed /\ ~last.synFailed) =>
         /\ last.engine.hadRuntimeError /\ ~last.engine.hadError
         /\ (argc = FileArgc => exit = << ExitRuntimeError >>)
    /\ (last.synFailed /\ ~last.lexFailed) =>
         /\ last.engine.hadError
         /\ (argc = FileArgc => exit = << ExitSyntaxError >>)

\* C3: no step replaces the engine's Interpreter or creates another one, and
\* every run that interprets hands its statements to that instance and starts
\* from the global environment the previous program left.
C3_SameInterpreter ==
  [][ /\ engine'.interpreter.id = engine.interpreter.id
      /\ created'.Interpreter = created.Interpreter
      /\ (last'.ran /\ Called(last', "interpret")) =>
           /\ last'.interpretedBy = engine.interpreter.id
           /\ last'.startHeap = engine.interpreter.heap ]_vars

\* C3 witness: a REPL line called the counter that an earlier line declared.
C3_Witness ==
  /\ argc <= ReplArgc /\ last.ran /\ last.text = TextCall
  /\ Called(last, "interpret") /\ last.value = Num(1)

\* C4: in the REPL, the run after a line that ended in an error begins with
\* both flags clear, and if its line is valid all three stages run.
C4_ErrorDoesNotSuppressNextLine ==
  [][ (argc <= ReplArgc /\ last.ran /\ Failed(last) /\ last'.ran) =>
        /\ ~last'.entry.hadError /\ ~last'.entry.hadRuntimeError
        /\ (~last'.lexFailed /\ ~last'.synFailed) =>
             last'.calls = << "tokenize", "parse", "interpret" >> ]_vars

\* C4 witness: the second line reads the z that the first line bound before
\* it failed on the undeclared y.
C4_Witness ==
  /\ argc <= ReplArgc /\ lines = 2 /\ last.ran /\ last.text = TextReadZ
  /\ ~Failed(last) /\ last.value = Num(5)

\* C5: run returns normally whatever a stage throws, and when a stage threw
\* it printed the error and set hadError.
C5_NoExceptionEscapesRun ==
  last.ran =>
    /\ last.completion = "return"
    /\ last.threwAt # "" =>
         /\ last.engine.hadError
         /\ last.out # <<>>
         /\ last.out[Len(last.out)] = "Error: " \o last.message

\* C5 witness: a run in which the interpreter threw a value without a
\* message, printed as undefined.
C5_Witness ==
  /\ last.ran /\ last.threwAt = "interpret" /\ last.completion = "return"
  /\ last.engine.hadError /\ last.out[Len(last.out)] = "Error: undefined"

\* C6: after a REPL line other than exit/quit the prompt is issued again and
\* process.exit is not called; in file mode a program with an error ends the
\* process with a non-zero exit code.
C6_ReplContinuesFileTerminates ==
  last.ran =>
    /\ argc <= ReplArgc => (pc = "repl" /\ exit = <<>> /\ prompts = lines + 1)
    /\ (argc = FileArgc /\ Failed(last)) =>
         (pc = "exited" /\ exit # <<>> /\ exit # << ExitOk >>)

\* C7: a run whose tokenizer reported a lexical error, by throwing or by a
\* diagnostic, never calls parser.parse.
C7_LexicalErrorPreventsParse ==
  (last.ran /\ last.lexFailed) => ~Called(last, "parse")

\* C8: after a run that ended with an interpreter error the engine holds the
\* same Interpreter, in the state in which the interpreter left it.
C8_NoRollback ==
  (last.ran /\ last.rtFailed) =>
    /\ engine.interpreter = last.left
    /\ engine.interpreter.id = last.entry.interpreter.id

\* C8 witness: the program failed on the undeclared y after binding z to 5
\* and printing it, and z is still bound.
C8_Witness ==
  /\ last.ran /\ last.rtFailed /\ last.threwAt = "interpret"
  /\ "z" \in DOMAIN engine.interpreter.heap[GlobalEnv].vars
  /\ "z" \notin DOMAIN last.entry.interpreter.heap[GlobalEnv].vars
  /\ last.out[1] = "5"

\* C9: once c is bound to the counter, the program c(); returns one more than
\* the number of calls made before, also as a program of its own; the whole
\* makeCounter program ending in c(); c(); returns 2.
C9_ClosureSharedByReference ==
  [][ (last'.ran /\ Called(last', "interpret")) =>
        /\ (last'.text = TextCall /\ CounterBound(engine)) =>
             (~last'.rtFailed /\ last'.value = Num(CounterCalls(engine) + 1))
        /\ last'.text = TextCounterTwice =>
             (~last'.rtFailed /\ last'.value = Num(2)) ]_vars

\* C9 witness: the third call of the counter, as a program of its own,
\* returned 3.
C9_Witness ==
  /\ last.ran /\ last.text = TextCall /\ last.value = Num(3)
  /\ CounterBound(engine) /\ CounterCalls(engine) = 3

\* C10: a run calls tokenize, then parse, then interpret, each at most once
\* and none after a stage threw, with one new Tokenizer and one new Parser
\* for the run and no new Interpreter.
C10_StageOrder ==
  last.ran =>
    /\ last.calls \in { << "tokenize" >>, << "tokenize", "parse" >>,
                        << "tokenize", "parse", "interpret" >> }
    /\ last.threwAt = "tokenize" => last.calls = << "tokenize" >>
    /\ last.threwAt = "parse" => last.calls = << "tokenize", "parse" >>
    /\ last.news = [i \in 1..(IF Len(last.calls) = 1 THEN 1 ELSE 2) |->
                      IF i = 1 THEN "Tokenizer" ELSE "Parser"]
    /\ created.Interpreter = 1
    /\ Called(last, "interpret") => last.interpretedBy = 1

\* C10 witness: the third line of a session went through all three stages.
C10_Witness ==
  /\ lines = 3 /\ last.ran /\ last.calls = << "tokenize", "parse", "interpret" >>
  /\ created.Tokenizer = 3 /\ created.Parser = 3 /\ created.Interpreter = 1

\* The lines of the inputs whose trimmed text is exit or quit.
ExitTexts == { << "exit" >>, << " ", "quit", "\t" >>, << "\f", "exit", "\r" >> }

\* C12: in REPL mode a run whose interpretation returned echoes the value
\* exactly when interpret returned one, whatever the value.
C12_EchoesEveryValue ==
  (argc <= ReplArgc /\ last.ran /\ Called(last, "interpret") /\ last.threwAt = "") =>
    /\ last.echoed <=> last.value.t \notin {"undef", "nil"}
    /\ last.echoed => last.out[Len(last.out)] = ToStr(last.value)

\* C13: in file mode run never prints the value interpret returned, so a
\* program without an error and without output of its own prints nothing;
\* an echo happens in REPL mode only.
C13_NoEchoInFileMode ==
  last.ran =>
    /\ argc = FileArgc =>
         /\ ~last.echoed
         /\ ~Failed(last) => (last.out = <<>> /\ console = <<>>)
    /\ last.echoed => argc <= ReplArgc

\* C13 witness: the file var x = 1; x = x + 1; x ran to the value 2.
C13_Witness ==
  /\ argc = FileArgc /\ last.ran /\ ~Failed(last)
  /\ Called(last, "interpret") /\ last.value = Num(2)

\* C16: a line that is exit or quit after trimming is not passed to run; the
\* step that closes the session, by such a line or by the end of the input,
\* prints Goodbye!, exits with 0, runs nothing and issues no prompt, and no
\* step follows the end of the process.
C16_ExitClosesSession ==
  [][ /\ pc # "exited"
      /\ (pc = "repl" /\ last'.ran) => last'.text \notin ExitTexts
      /\ (pc = "repl" /\ ~last'.ran) =>
           /\ pc' = "exited"
           /\ console' = << "Goodbye!" >> /\ exit' = << ExitOk >>
           /\ prompts' = prompts /\ created' = created
           /\ engine' = engine ]_vars

\* C16 witness: the session ran one line and was closed by the second.
C16_Witness ==
  /\ pc = "exited" /\ argc <= ReplArgc /\ lines = 2 /\ prompts = 2
  /\ exit = << ExitOk >> /\ console = << "Goodbye!" >>

\* C18: with more than one script argument main prints the usage line and
\* exits with 64 and no stage object is ever created; with one it runs the
\* file at most once and never prompts; with none it starts the REPL.
C18_OneModeFromArgc ==
  pc # "main" =>
    /\ argc > FileArgc =>
         /\ pc = "exited" /\ exit = << ExitUsage >>
         /\ console = << "Usage: node src/index.js [script]" >>
         /\ ~last.ran /\ prompts = 0 /\ lines = 0
         /\ created = [Tokenizer |-> 0, Parser |-> 0, Interpreter |-> 1]
    /\ argc = FileArgc =>
         /\ pc \in {"returned", "exited"} /\ prompts = 0 /\ lines = 0
         /\ exit # << ExitUsage >>
         /\ created.Tokenizer = (IF last.ran THEN 1 ELSE 0)
    /\ argc < FileArgc =>
         /\ prompts >= 1 /\ exit # << ExitUsage >>
         /\ created.Tokenizer <= lines

\* C18 witness: main was started with two script arguments.
C18_Witness == argc > FileArgc /\ pc = "exited" /\ exit = << ExitUsage >>

\* C11: at most one call of the line handler is in progress; it is the call
\* for the next line in arrival order, the lines behind it wait in that
\* order, and when its run begins the handler of every earlier line has
\* completed its run, its reset of both flags and its prompt.
C11_OneLineAtATime ==
  /\ Len(active) <= 1
  /\ \A i \in 1..Len(active) :
       /\ active[i].n = lines + 1
       /\ active[i].at = "run" =>
            (prompts = lines + 1 /\ ~engine.hadError /\ ~engine.hadRuntimeError)
  /\ \A j \in 1..Len(pending) : pending[j].n = lines + Len(active) + j

\* C11 witness: the run of the second line is about to begin, after the
\* first line ended in an error, while the third line waits.
C11_Witness ==
  /\ lines = 1 /\ Len(active) = 1 /\ active[1].at = "run" /\ active[1].n = 2
  /\ Len(pending) = 1 /\ pending[1].n = 3
  /\ last.ran /\ last.entry.hadError = FALSE /\ last.engine.hadError

\* C14: a call of runFile ends the process with status 1 exactly when the
\* file could not be read, and then run was not called; otherwise run was
\* called once and the status is 65 when hadError is set after it, 70 when
\* only hadRuntimeError is set, and no exit at all when neither is set.
C14_RunFileExitStatus ==
  [][ (op'.n = op.n + 1 /\ op'.name = "runFile") =>
        /\ (exit' = << ExitReadError >>) <=> ~last'.ran
        /\ ~last'.ran => created'.Tokenizer = created.Tokenizer
        /\ last'.ran =>
             /\ created'.Tokenizer = created.Tokenizer + 1
             /\ exit' = IF engines'[op'.on].hadError THEN << ExitSyntaxError >>
                        ELSE IF engines'[op'.on].hadRuntimeError
                             THEN << ExitRuntimeError >>
                        ELSE <<>> ]_vars

\* C14 witness: runFile ran a file on an engine with both flags set and
\* ended the process with 65.
C14_Witness ==
  /\ op.name = "runFile" /\ last.ran
  /\ engines[op.on].hadError /\ engines[op.on].hadRuntimeError
  /\ exit = << ExitSyntaxError >> /\ pc = "exited"

\* C15: outside the REPL's line handler no method call turns a flag of any
\* engine from true to false; a flag turns from false to true only in run
\* (also when runFile calls it), report (also through error) and
\* runtimeError; and a run entered with hadError set calls tokenize and
\* parse but never interpret.
C15_FlagsOnlySet ==
  [][ op'.n = op.n + 1 =>
        /\ op'.name # "line" =>
             \A i \in EngineIds :
               /\ engines[i].hadError => engines'[i].hadError
               /\ engines[i].hadRuntimeError => engines'[i].hadRuntimeError
        /\ \A i \in EngineIds :
             /\ (~engines[i].hadError /\ engines'[i].hadError) =>
                  op'.name \in {"run", "runFile", "report", "error"}
             /\ (~engines[i].hadRuntimeError /\ engines'[i].hadRuntimeError) =>
                  op'.name = "runtimeError"
        /\ (op'.name = "run" /\ engines[op'.on].hadError) =>
             /\ last'.ran /\ last'.entry.hadError
             /\ ~Called(last', "interpret")
             /\ engines'[op'.on].hadError ]_vars

\* C15 witness: run was called with hadError already set on a source that
\* tokenizes and parses, and stopped before interpret.
C15_Witness ==
  /\ op.name = "run" /\ last.ran /\ last.entry.hadError
  /\ ~last.lexFailed /\ ~last.synFailed
  /\ last.calls = << "tokenize", "parse" >>
  /\ engines[op.on].hadError

\* C17: two engines hold different Interpreter objects, and a method call on
\* one engine leaves the flags of the other and the state of the other's
\* Interpreter as they were.
C17_EnginesIndependent ==
  [][ op'.n = op.n + 1 =>
        \A j \in EngineIds \ {op'.on} :
          /\ engines[j].interpreter.id # engines[op'.on].interpreter.id
          /\ engines'[j] = engines[j]
          /\ objects'[engines[j].interpreter.id] = objects[engines[j].interpreter.id] ]_vars

\* C17 witness: the first engine has run a program that declared z and
\* failed, the second has run one that declared x, and neither shows the
\* other's variable or flag.
C17_Witness ==
  /\ "z" \in DOMAIN objects[engines[1].interpreter.id].heap[GlobalEnv].vars
  /\ "x" \notin DOMAIN objects[engines[1].interpreter.id].heap[GlobalEnv].vars
  /\ "x" \in DOMAIN objects[engines[2].interpreter.id].heap[GlobalEnv].vars
  /\ "z" \notin DOMAIN objects[engines[2].interpreter.id].heap[GlobalEnv].vars
  /\ engines[1].hadError /\ ~engines[2].hadError

====
